---- MODULE Spec2Model ----
(***************************************************************************)
(* Model of blacix/ticket-enhancer.                                        *)
(*                                                                         *)
(*   jira_connect_app.py   : tenant registry (installed_tenants, the file  *)
(*                           tenants.json), the install / uninstall        *)
(*                           callbacks, the JWT gate and /enhance.         *)
(*   jira_issue_enhancer.py: the enhancement pipeline (tracker lookup,     *)
(*                           prompt, generation call, extraction, update). *)
(*                                                                         *)
(* Spec         : the registry and the JWT gate.                           *)
(* PipelineSpec : one /enhance request at a time, step by step.            *)
(***************************************************************************)
EXTENDS Integers, Sequences, FiniteSets, TLC

VARIABLES
    installed_tenants,  \* self.installed_tenants: client key -> record
    tenants_json,       \* the file tenants.json
    last,               \* the request just handled and its response
    live,               \* history: keys installed and not uninstalled since
    restarted,          \* history: the process was restarted at least once
    credentials,        \* JIRA_SERVER_URL and the service account are set
    pc,                 \* position of the /enhance request in flight
    req,                \* its query arguments
    issue,              \* the issue object the tracker returned
    model_out,          \* what _call_model returned or raised
    enh,                \* the dict enhance_ticket returned
    resp,               \* the HTTP response of serve_enhance
    eid,                \* enhance_issue_description: how the call ended
    failed,             \* history: the pipeline step that failed
    reads,              \* tracker reads of this request
    gens,               \* generation calls of this request
    updates,            \* tracker description updates of this request
    ticket,             \* the ticket's description in the tracker
    ticket0,            \* history: that description when the request came
    update_arg,         \* the description passed to jira.issue_update
    llama_output,       \* extraction alone: the lines of the text given
    extracted,          \* extraction alone: the string returned
    snapshot,           \* prompt alone: the fields of the issue given
    prompt,             \* prompt alone: the prompt returned
    tpc,                \* concurrent installs: position of each call
    tbody,              \* concurrent installs: body of each call
    tbuf,               \* concurrent installs: text each call has buffered
    tresp               \* concurrent installs: response of each call

regVars == <<installed_tenants, tenants_json, last, live, restarted>>

pipeVars == <<pc, req, issue, model_out, enh, resp, eid, failed,
              reads, gens, updates, ticket, ticket0, update_arg>>

pureVars == <<llama_output, extracted, snapshot, prompt>>

raceVars == <<tpc, tbody, tbuf, tresp>>

vars == <<installed_tenants, tenants_json, last, live, restarted,
          credentials, pc, req, issue, model_out, enh, resp, eid, failed,
          reads, gens, updates, ticket, ticket0, update_arg,
          llama_output, extracted, snapshot, prompt,
          tpc, tbody, tbuf, tresp>>

-----------------------------------------------------------------------------
(* Inputs of the callbacks.                                                *)

\* opaque client identifier strings (clientKey of the callback body)
ClientKeys == {"c1", "c2"}

Secrets == {"s1", "s2"}

BaseUrls == {"u1"}

\* request.get_json() raising (body is not JSON) or returning None
Malformed == [malformed |-> TRUE]

InstallBodies ==
    {Malformed} \cup
    [malformed : {FALSE}, clientKey : ClientKeys,
     sharedSecret : Secrets, baseUrl : BaseUrls]

UninstallBodies ==
    {Malformed} \cup [malformed : {FALSE}, clientKey : ClientKeys]

\* outcome of open('tenants.json', 'w') / json.dump
SaveOutcomes == {"ok", "open_failed", "write_failed"}

\* the 'iss' claim of a token; NoIss is a payload without 'iss'
NoIss == "<no iss>"

TokenIssuers == ClientKeys \cup {NoIss}

\* the 'alg' header of a token
TokenAlgs == {"HS256", "HS512"}

\* A token is its claimed issuer, the key its signature was made with, its
\* algorithm and whether its 'exp' claim lies in the past.
MalformedToken == [malformed |-> TRUE]

Tokens ==
    {MalformedToken} \cup
    [malformed : {FALSE}, iss : TokenIssuers, key : Secrets,
     alg : TokenAlgs, expired : BOOLEAN]

\* the Authorization header: absent / without the 'JWT ' prefix, or a token
NoJwtHeader == [prefix |-> FALSE]

AuthHeaders == {NoJwtHeader} \cup [prefix : {TRUE}, token : Tokens]

-----------------------------------------------------------------------------
(* Dictionaries and their JSON form.                                       *)

EmptyDict == [k \in {} |-> 0]

Put(m, k, v) == [x \in DOMAIN m \cup {k} |-> IF x = k THEN v ELSE m[x]]

Del(m, k) == [x \in DOMAIN m \ {k} |-> m[x]]

\* tenants.json as json.load reads it.  Keys and field values of the
\* registry are JSON strings, which json.dump / json.load give back unchanged.
FileMissing == [state |-> "missing", data |-> EmptyDict]

FileCorrupt == [state |-> "corrupt", data |-> EmptyDict]

FileWith(m) == [state |-> "ok", data |-> m]

\* load_tenants: FileNotFoundError gives {}, otherwise json.load.
load_tenants(file) == IF file.state = "missing" THEN EmptyDict ELSE file.data

\* save_tenants: open(..., 'w') truncates, json.dump writes.
save_tenants(file, m, io) ==
    CASE io = "ok"           -> FileWith(m)
      [] io = "open_failed"  -> file
      [] io = "write_failed" -> FileCorrupt

-----------------------------------------------------------------------------
(* Responses.                                                              *)

Resp(status, error) == [status |-> status, error |-> error]

NoContent == Resp(204, "")

Unauthorized(error) == Resp(401, error)

-----------------------------------------------------------------------------
(* PyJWT as the gate uses it.                                              *)

\* jwt.decode(token, options={"verify_signature": False}): parses only.
jwt_decode_unverified(token) ==
    IF token.malformed THEN [raised |-> "InvalidTokenError"]
    ELSE [raised |-> "", iss |-> token.iss]

\* jwt.decode(token, shared_secret, algorithms=['HS256']): the algorithm,
\* then the HMAC signature, then the 'exp' claim.
jwt_decode_SkipSignature(token, shared_secret) ==
    IF token.malformed \/ token.alg # "HS256"
    THEN [raised |-> "InvalidTokenError"]
    ELSE IF token.expired THEN [raised |-> "ExpiredSignatureError"]
    ELSE [raised |-> "", iss |-> token.iss]

jwt_decode(token, shared_secret) ==
    IF token.malformed \/ token.alg # "HS256"
    THEN [raised |-> "InvalidTokenError"]
    ELSE IF token.key # shared_secret THEN [raised |-> "InvalidTokenError"]
    ELSE IF token.expired THEN [raised |-> "ExpiredSignatureError"]
    ELSE [raised |-> "", iss |-> token.iss]

\* decorated_function: the response and whether the wrapped handler ran
Gate_VerifyBeforeLookup(tenants, header) ==
    IF ~header.prefix
    THEN [resp |-> Unauthorized("Missing or invalid JWT token"), ran |-> FALSE]
    ELSE LET unverified == jwt_decode_unverified(header.token) IN
         IF unverified.raised # ""
         THEN [resp |-> Unauthorized("Invalid token"), ran |-> FALSE]
         ELSE IF header.token.expired
         THEN [resp |-> Unauthorized("Token expired"), ran |-> FALSE]
         ELSE IF unverified.iss \notin DOMAIN tenants
         THEN [resp |-> Unauthorized("App not installed for this tenant"),
               ran |-> FALSE]
         ELSE LET payload == jwt_decode(header.token,
                                        tenants[unverified.iss].shared_secret)
              IN  CASE payload.raised = "ExpiredSignatureError" ->
                         [resp |-> Unauthorized("Token expired"), ran |-> FALSE]
                    [] payload.raised = "InvalidTokenError" ->
                         [resp |-> Unauthorized("Invalid token"), ran |-> FALSE]
                    [] OTHER -> [resp |-> Resp(200, ""), ran |-> TRUE]

Gate(tenants, header) ==
    IF ~header.prefix
    THEN [resp |-> Unauthorized("Missing or invalid JWT token"), ran |-> FALSE]
    ELSE LET unverified == jwt_decode_unverified(header.token) IN
         IF unverified.raised # ""
         THEN [resp |-> Unauthorized("Invalid token"), ran |-> FALSE]
         ELSE IF unverified.iss \notin DOMAIN tenants
         THEN [resp |-> Unauthorized("App not installed for this tenant"),
               ran |-> FALSE]
         ELSE LET payload == jwt_decode(header.token,
                                        tenants[unverified.iss].shared_secret)
              IN  CASE payload.raised = "ExpiredSignatureError" ->
                         [resp |-> Unauthorized("Token expired"), ran |-> FALSE]
                    [] payload.raised = "InvalidTokenError" ->
                         [resp |-> Unauthorized("Invalid token"), ran |-> FALSE]
                    [] OTHER -> [resp |-> Resp(200, ""), ran |-> TRUE]

-----------------------------------------------------------------------------
(* Text: a string is a sequence of one-character strings, a model response *)
(* is the sequence of its lines (llama_output.split('\n')).                *)

LowerAlpha ==
    <<"a", "b", "c", "d", "e", "f", "g", "h", "i", "j", "k", "l", "m", "n",
      "o", "p", "q", "r", "s", "t", "u", "v", "w", "x", "y", "z">>

UpperAlpha ==
    <<"A", "B", "C", "D", "E", "F", "G", "H", "I", "J", "K", "L", "M", "N",
      "O", "P", "Q", "R", "S", "T", "U", "V", "W", "X", "Y", "Z">>

Newline == "\n"

IsSpace(c) == c \in {" ", "\t", Newline}

IsLowerChar(c) == \E i \in 1..Len(LowerAlpha) : LowerAlpha[i] = c

IsUpperChar(c) == \E i \in 1..Len(UpperAlpha) : UpperAlpha[i] = c

UpperChar(c) ==
    IF IsLowerChar(c)
    THEN UpperAlpha[CHOOSE i \in 1..Len(LowerAlpha) : LowerAlpha[i] = c]
    ELSE c

\* str.upper()
Upper(s) == [i \in 1..Len(s) |-> UpperChar(s[i])]

\* t in s
Contains(s, t) ==
    \E i \in 0..(Len(s) - Len(t)) : SubSeq(s, i + 1, i + Len(t)) = t

\* str.strip()
Strip(s) ==
    LET keep == {i \in 1..Len(s) : ~IsSpace(s[i])} IN
    IF keep = {} THEN <<>>
    ELSE SubSeq(s, CHOOSE i \in keep : \A j \in keep : i <= j,
                   CHOOSE i \in keep : \A j \in keep : j <= i)

\* str.isupper(): some cased character, and no lower-case one
IsUpper(s) ==
    /\ \E i \in 1..Len(s) : IsUpperChar(s[i])
    /\ \A i \in 1..Len(s) : ~IsLowerChar(s[i])

HasColon(s) == \E i \in 1..Len(s) : s[i] = ":"

\* line.split(':', 1)[1] for a line with a colon
AfterFirstColon(s) ==
    LET first == CHOOSE i \in 1..Len(s) :
                    s[i] = ":" /\ \A j \in 1..(i - 1) : s[j] # ":"
    IN  SubSeq(s, first + 1, Len(s))

\* '\n'.join(lines)
RECURSIVE Join(_)
Join(lines) ==
    IF lines = <<>> THEN <<>>
    ELSE IF Len(lines) = 1 THEN lines[1]
    ELSE lines[1] \o <<Newline>> \o Join(Tail(lines))

Marker ==
    <<"E", "N", "H", "A", "N", "C", "E", "D", " ", "D", "E", "S", "C", "R",
      "I", "P", "T", "I", "O", "N", ":">>

\* a line shorter than this can be taken for a section header
HeaderMaxLen == 50

\* line.strip().isupper() and ':' in line and len(line.strip()) < 50
IsSectionHeader(line) ==
    /\ IsUpper(Strip(line))
    /\ HasColon(line)
    /\ Len(Strip(line)) < HeaderMaxLen

\* the for loop of _extract_description_from_output over the lines left
RECURSIVE ScanLines(_, _, _)
ScanLines(lines, in_description, description_lines) ==
    IF lines = <<>> THEN description_lines
    ELSE LET line == Head(lines) IN
         IF Contains(Upper(line), Marker)
         THEN ScanLines(Tail(lines), TRUE,
                  IF Strip(AfterFirstColon(line)) # <<>>
                  THEN Append(description_lines, Strip(AfterFirstColon(line)))
                  ELSE description_lines)
         ELSE IF in_description
         THEN IF IsSectionHeader(line)
              THEN description_lines
              ELSE ScanLines(Tail(lines), TRUE,
                             Append(description_lines, line))
         ELSE ScanLines(Tail(lines), FALSE, description_lines)

\* _extract_description_from_output
ExtractDescription_Accumulating(lines) ==
    Strip(Join(ScanLines(lines, TRUE, <<>>)))

ExtractDescription(lines) == Strip(Join(ScanLines(lines, FALSE, <<>>)))

-----------------------------------------------------------------------------
(* Inputs of /enhance and outcomes of its outbound calls.                  *)

\* request.args.get(...) of an argument that is not in the query string
NoArg == "<absent>"

Actions == {"preview", "apply", "delete"}

IssueKeyArgs == {NoArg, "", "K-1"}

InstructionArgs == {"", "be brief"}

EnhanceRequests ==
    [action : Actions, issueKey : IssueKeyArgs, instructions : InstructionArgs]

\* the issue object self.jira.issue returns: complete, with a null
\* description, without 'fields', or with a label that is not a string
IssueKinds == {"ok", "null_description", "no_fields", "bad_labels"}

LookupOutcomes == {"raise"} \cup IssueKinds

UpdateOutcomes == {"ok", "raise"}

\* lines a model response is made of
LineFoo == <<"F", "o", "o">>

LineBar == <<"B", "a", "r">>

LineHeader == <<"N", "E", "X", "T", " ", "S", "E", "C", "T", "I", "O", "N", ":">>

LineMarkerText == <<"E", "n", "h", "a", "n", "c", "e", "d", " ", "d", "e", "s", "c", "r", "i", "p", "t", "i", "o", "n", ":", " ", "F", "o", "o">>

ResponseLines == {Marker, LineFoo, LineBar, LineHeader, LineMarkerText}

\* longest model response, in lines
MaxResponseLines == 2

ResponseTexts ==
    UNION {[1..n -> ResponseLines] : n \in 1..MaxResponseLines}

\* requests.post raising, raise_for_status raising, response.json() raising,
\* a body without 'response', a 'response' that is not a string, a text
GenerationOutcomes ==
    [kind : {"network_error", "http_error", "bad_json",
             "no_response_field", "not_a_string"}]
    \cup [kind : {"text"}, lines : ResponseTexts]

\* the description the ticket has before any request
OriginalDescription == <<"o", "l", "d">>

\* nothing assigned yet
Unset == [set |-> FALSE]

-----------------------------------------------------------------------------
RegistryInit ==
    /\ installed_tenants = EmptyDict
    /\ tenants_json = FileMissing
    /\ last = [op |-> "start"]
    /\ live = {}
    /\ restarted = FALSE

PipelineInit ==
    /\ pc = "idle"
    /\ req = Unset
    /\ issue = Unset
    /\ model_out = Unset
    /\ enh = Unset
    /\ resp = Unset
    /\ eid = "not_called"
    /\ failed = "none"
    /\ reads = 0
    /\ gens = 0
    /\ updates = 0
    /\ ticket = OriginalDescription
    /\ ticket0 = OriginalDescription
    /\ update_arg = Unset

\* no direct call of _extract_description_from_output
ExtractionIdle ==
    /\ llama_output = Unset
    /\ extracted = Unset

\* no direct call of _build_prompt
PromptIdle ==
    /\ snapshot = Unset
    /\ prompt = Unset

\* no concurrent install calls
RaceIdle ==
    /\ tpc = Unset
    /\ tbody = Unset
    /\ tbuf = Unset
    /\ tresp = Unset

Init ==
    /\ RegistryInit
    /\ credentials \in BOOLEAN
    /\ PipelineInit
    /\ ExtractionIdle
    /\ PromptIdle
    /\ RaceIdle

\* serve_installed
ServeInstalled_SaveFirst(body, io) ==
    IF body.malformed
    THEN /\ last' = [op |-> "installed", body |-> body, io |-> "none",
                     resp |-> Resp(400, "bad body")]
         /\ UNCHANGED <<installed_tenants, tenants_json, live, restarted,
                      credentials, pipeVars, pureVars, raceVars>>
    ELSE LET rec == [shared_secret |-> body.sharedSecret,
                     base_url |-> body.baseUrl]
             mem == Put(installed_tenants, body.clientKey, rec)
         IN  /\ installed_tenants' = IF io = "ok" THEN mem
                                     ELSE installed_tenants
             /\ tenants_json' = save_tenants(tenants_json, mem, io)
             /\ last' = [op |-> "installed", body |-> body, io |-> io,
                         resp |-> IF io = "ok" THEN NoContent
                                  ELSE Resp(400, "save failed")]
             /\ live' = live \cup {body.clientKey}
             /\ UNCHANGED <<restarted, credentials, pipeVars, pureVars, raceVars>>

ServeInstalled(body, io) ==
    IF body.malformed
    THEN /\ last' = [op |-> "installed", body |-> body, io |-> "none",
                     resp |-> Resp(400, "bad body")]
         /\ UNCHANGED <<installed_tenants, tenants_json, live, restarted,
                      credentials, pipeVars, pureVars, raceVars>>
    ELSE LET rec == [shared_secret |-> body.sharedSecret,
                     base_url |-> body.baseUrl]
             mem == Put(installed_tenants, body.clientKey, rec)
         IN  /\ installed_tenants' = mem
             /\ tenants_json' = save_tenants(tenants_json, mem, io)
             /\ last' = [op |-> "installed", body |-> body, io |-> io,
                         resp |-> IF io = "ok" THEN NoContent
                                  ELSE Resp(400, "save failed")]
             /\ live' = live \cup {body.clientKey}
             /\ UNCHANGED <<restarted, credentials, pipeVars, pureVars, raceVars>>

\* serve_uninstalled
ServeUninstalled_KeepsRecord(body) ==
    IF body.malformed
    THEN /\ last' = [op |-> "uninstalled", body |-> body, removed |-> FALSE,
                     resp |-> Resp(400, "bad body")]
         /\ UNCHANGED <<installed_tenants, tenants_json, live, restarted,
                      credentials, pipeVars, pureVars, raceVars>>
    ELSE /\ last' = [op |-> "uninstalled", body |-> body,
                     removed |-> body.clientKey \in DOMAIN installed_tenants,
                     resp |-> NoContent]
         /\ live' = live \ {body.clientKey}
         /\ UNCHANGED <<installed_tenants, tenants_json, restarted,
                      credentials, pipeVars, pureVars, raceVars>>

ServeUninstalled(body) ==
    IF body.malformed
    THEN /\ last' = [op |-> "uninstalled", body |-> body, removed |-> FALSE,
                     resp |-> Resp(400, "bad body")]
         /\ UNCHANGED <<installed_tenants, tenants_json, live, restarted,
                      credentials, pipeVars, pureVars, raceVars>>
    ELSE /\ installed_tenants' =
                IF body.clientKey \in DOMAIN installed_tenants
                THEN Del(installed_tenants, body.clientKey)
                ELSE installed_tenants
         /\ last' = [op |-> "uninstalled", body |-> body,
                     removed |-> body.clientKey \in DOMAIN installed_tenants,
                     resp |-> NoContent]
         /\ live' = live \ {body.clientKey}
         /\ UNCHANGED <<tenants_json, restarted, credentials, pipeVars, pureVars, raceVars>>

\* a request through jwt_required
JwtRequired(header) ==
    LET out == Gate(installed_tenants, header) IN
    /\ last' = [op |-> "jwt", header |-> header, resp |-> out.resp,
                ran |-> out.ran]
    /\ UNCHANGED <<installed_tenants, tenants_json, live, restarted,
                      credentials, pipeVars, pureVars, raceVars>>

\* a new process: JiraConnectApp.__init__ loads tenants.json
Restart ==
    /\ tenants_json.state # "corrupt"
    /\ installed_tenants' = load_tenants(tenants_json)
    /\ last' = [op |-> "restart"]
    /\ restarted' = TRUE
    /\ UNCHANGED <<tenants_json, live, credentials, pipeVars, pureVars, raceVars>>

-----------------------------------------------------------------------------
(* /enhance: serve_enhance and the pipeline it runs, one outbound call or  *)
(* one function body per step.                                             *)

Json(status, body) == [status |-> status, body |-> body]

Failure(error) == [success |-> FALSE, error |-> error]

\* _create_enhancer_for_tenant: all([server_url, username, api_token])
create_enhancer_raises == ~credentials

\* serve_enhance up to its first outbound call
ServeEnhance_KeyNoneOnly(r) ==
    /\ pc = "idle"
    /\ req' = r
    /\ issue' = Unset /\ model_out' = Unset /\ enh' = Unset
    /\ eid' = "not_called" /\ failed' = "none"
    /\ reads' = 0 /\ gens' = 0 /\ updates' = 0
    /\ ticket0' = ticket
    /\ update_arg' = Unset
    /\ IF r.issueKey = NoArg
       THEN /\ resp' = Json(400, Failure("Issue key required"))
            /\ pc' = "done"
       ELSE IF create_enhancer_raises
       THEN /\ resp' = Json(500, Failure("Missing Jira credentials for tenant"))
            /\ pc' = "done"
       ELSE IF r.action \in {"preview", "apply"}
       THEN /\ resp' = Unset
            /\ pc' = "get_issue"
       ELSE /\ resp' = Json(400, Failure("Invalid action"))
            /\ pc' = "done"
    /\ UNCHANGED <<regVars, pureVars, raceVars, credentials, ticket>>

ServeEnhance(r) ==
    /\ pc = "idle"
    /\ req' = r
    /\ issue' = Unset /\ model_out' = Unset /\ enh' = Unset
    /\ eid' = "not_called" /\ failed' = "none"
    /\ reads' = 0 /\ gens' = 0 /\ updates' = 0
    /\ ticket0' = ticket
    /\ update_arg' = Unset
    /\ IF r.issueKey \in {NoArg, ""}
       THEN /\ resp' = Json(400, Failure("Issue key required"))
            /\ pc' = "done"
       ELSE IF create_enhancer_raises
       THEN /\ resp' = Json(500, Failure("Missing Jira credentials for tenant"))
            /\ pc' = "done"
       ELSE IF r.action \in {"preview", "apply"}
       THEN /\ resp' = Unset
            /\ pc' = "get_issue"
       ELSE /\ resp' = Json(400, Failure("Invalid action"))
            /\ pc' = "done"
    /\ UNCHANGED <<regVars, pureVars, raceVars, credentials, ticket>>

\* get_issue: self.jira.issue(ticket_key), called by
\* enhance_issue_description (preview) or enhance_and_update_issue (apply)
GetIssue(outcome) ==
    /\ pc = "get_issue"
    /\ reads' = reads + 1
    /\ IF outcome = "raise"
       THEN /\ failed' = "lookup"
            /\ eid' = IF req.action = "preview" THEN "raised" ELSE eid
            /\ resp' = Json(500, Failure("tracker lookup failed"))
            /\ pc' = "done"
            /\ UNCHANGED issue
       ELSE /\ issue' = [set |-> TRUE, kind |-> outcome]
            /\ eid' = IF req.action = "preview" THEN "running" ELSE eid
            /\ pc' = IF req.action = "preview" THEN "build_prompt"
                     ELSE "to_string"
            /\ UNCHANGED <<failed, resp>>
    /\ UNCHANGED <<regVars, pureVars, raceVars, credentials, req, model_out, enh, gens, updates,
                   ticket, ticket0, update_arg>>

\* to_string(issue), printed by enhance_and_update_issue: issue['fields']
\* and len(original_desc) raise on these issues
to_string ==
    /\ pc = "to_string"
    /\ IF issue.kind \in {"no_fields", "null_description"}
       THEN /\ failed' = "to_string"
            /\ resp' = Json(500, Failure("to_string failed"))
            /\ pc' = "done"
            /\ UNCHANGED eid
       ELSE /\ eid' = "running"
            /\ pc' = "build_prompt"
            /\ UNCHANGED <<failed, resp>>
    /\ UNCHANGED <<regVars, pureVars, raceVars, credentials, req, issue, model_out, enh,
                   reads, gens, updates, ticket, ticket0, update_arg>>

\* _build_prompt, before the try of enhance_ticket: issue['fields'] and
\* ', '.join(labels) raise on these issues
BuildPrompt ==
    /\ pc = "build_prompt"
    /\ IF issue.kind \in {"no_fields", "bad_labels"}
       THEN /\ failed' = "prompt"
            /\ eid' = "raised"
            /\ resp' = Json(500, Failure("prompt construction failed"))
            /\ pc' = "done"
       ELSE /\ pc' = "call_model"
            /\ UNCHANGED <<failed, eid, resp>>
    /\ UNCHANGED <<regVars, pureVars, raceVars, credentials, req, issue, model_out, enh,
                   reads, gens, updates, ticket, ticket0, update_arg>>

\* what _call_model returns: result.get("response", "")
call_model_result(outcome) ==
    CASE outcome.kind = "text" ->
            [raised |-> "", is_str |-> TRUE, lines |-> outcome.lines]
      [] outcome.kind = "no_response_field" ->
            [raised |-> "", is_str |-> TRUE, lines |-> << <<>> >>]
      [] outcome.kind = "not_a_string" ->
            [raised |-> "", is_str |-> FALSE, lines |-> <<>>]
      [] OTHER ->
            [raised |-> outcome.kind, is_str |-> FALSE, lines |-> <<>>]

\* _call_model: one requests.post
CallModel_RetryOnFailure(outcome) ==
    /\ pc = "call_model"
    /\ gens' = gens + 1
    /\ model_out' = call_model_result(outcome)
    /\ pc' = IF call_model_result(outcome).raised # "" THEN "call_model"
             ELSE "extract"
    /\ UNCHANGED <<regVars, pureVars, raceVars, credentials, req, issue,
                   enh, resp, eid, failed, reads, updates, ticket, ticket0,
                   update_arg>>

CallModel(outcome) ==
    /\ pc = "call_model"
    /\ gens' = gens + 1
    /\ model_out' = call_model_result(outcome)
    /\ pc' = "extract"
    /\ UNCHANGED <<regVars, pureVars, raceVars, credentials, req, issue, enh, resp, eid, failed,
                   reads, updates, ticket, ticket0, update_arg>>

\* the rest of the try of enhance_ticket and its except
enhance_ticket_SwallowsError(out) ==
    IF out.raised # "" \/ ~out.is_str
    THEN [success |-> TRUE, enhanced_description |-> <<>>,
          full_response |-> <<>>]
    ELSE [success |-> TRUE,
          enhanced_description |-> ExtractDescription(out.lines),
          full_response |-> out.lines]

enhance_ticket_result(out) ==
    IF out.raised # "" THEN Failure(out.raised)
    ELSE IF ~out.is_str THEN Failure("AttributeError")
    ELSE [success |-> TRUE,
          enhanced_description |-> ExtractDescription(out.lines),
          full_response |-> out.lines]

Extract ==
    /\ pc = "extract"
    /\ enh' = enhance_ticket_result(model_out)
    /\ failed' = IF model_out.raised # "" THEN "generation"
                 ELSE IF ~model_out.is_str THEN "parse"
                 ELSE failed
    /\ eid' = "returned"
    /\ pc' = "returned"
    /\ UNCHANGED <<regVars, pureVars, raceVars, credentials, req, issue, model_out, resp,
                   reads, gens, updates, ticket, ticket0, update_arg>>

\* enhance_issue_description has returned: serve_enhance answers (preview),
\* or enhance_and_update_issue goes on (apply)
ReturnResult_PreviewWritesBack ==
    /\ pc = "returned"
    /\ IF ~enh.success
       THEN /\ resp' = Json(200, [success |-> FALSE,
                                  message |-> "Enhancement failed",
                                  error |-> enh.error])
            /\ pc' = "done"
       ELSE /\ pc' = "update"
            /\ UNCHANGED resp
    /\ UNCHANGED <<regVars, pureVars, raceVars, credentials, req, issue, model_out, enh, eid,
                   failed, reads, gens, updates, ticket, ticket0, update_arg>>

ReturnResult ==
    /\ pc = "returned"
    /\ IF req.action = "preview"
       THEN /\ resp' = Json(200, enh)
            /\ pc' = "done"
       ELSE IF ~enh.success
       THEN /\ resp' = Json(200, [success |-> FALSE,
                                  message |-> "Enhancement failed",
                                  error |-> enh.error])
            /\ pc' = "done"
       ELSE /\ pc' = "update"
            /\ UNCHANGED resp
    /\ UNCHANGED <<regVars, pureVars, raceVars, credentials, req, issue, model_out, enh, eid,
                   failed, reads, gens, updates, ticket, ticket0, update_arg>>

\* update_issue_description: one self.jira.issue_update
UpdateIssue_SkipsEmpty(outcome) ==
    /\ pc = "update"
    /\ IF enh.enhanced_description = <<>>
       THEN /\ resp' = Json(200, [success |-> TRUE,
                                  message |-> "Successfully updated",
                                  error |-> ""])
            /\ UNCHANGED <<updates, update_arg, ticket, failed>>
       ELSE /\ updates' = updates + 1
            /\ update_arg' = [set |-> TRUE, value |-> enh.enhanced_description]
            /\ IF outcome = "ok"
               THEN /\ ticket' = enh.enhanced_description
                    /\ resp' = Json(200, [success |-> TRUE,
                                          message |-> "Successfully updated",
                                          error |-> ""])
                    /\ UNCHANGED failed
               ELSE /\ failed' = "update"
                    /\ resp' = Json(200, [success |-> FALSE,
                                          message |-> "Failed to update",
                                          error |-> "tracker update failed"])
                    /\ UNCHANGED ticket
    /\ pc' = "done"
    /\ UNCHANGED <<regVars, pureVars, raceVars, credentials, req, issue,
                   model_out, enh, eid, reads, gens, ticket0>>

UpdateIssue(outcome) ==
    /\ pc = "update"
    /\ updates' = updates + 1
    /\ update_arg' = [set |-> TRUE, value |-> enh.enhanced_description]
    /\ IF outcome = "ok"
       THEN /\ ticket' = enh.enhanced_description
            /\ resp' = Json(200, [success |-> TRUE,
                                  message |-> "Successfully updated",
                                  error |-> ""])
            /\ UNCHANGED failed
       ELSE /\ failed' = "update"
            /\ resp' = Json(200, [success |-> FALSE,
                                  message |-> "Failed to update",
                                  error |-> "tracker update failed"])
            /\ UNCHANGED ticket
    /\ pc' = "done"
    /\ UNCHANGED <<regVars, pureVars, raceVars, credentials, req, issue, model_out, enh, eid,
                   reads, gens, ticket0>>

\* the response is sent
Finish ==
    /\ pc = "done"
    /\ pc' = "idle"
    /\ UNCHANGED <<regVars, pureVars, raceVars, credentials, req, issue, model_out, enh, resp,
                   eid, failed, reads, gens, updates, ticket, ticket0, update_arg>>

-----------------------------------------------------------------------------
Next ==
    \/ \E body \in InstallBodies, io \in SaveOutcomes : ServeInstalled(body, io)
    \/ \E body \in UninstallBodies : ServeUninstalled(body)
    \/ \E header \in AuthHeaders : JwtRequired(header)
    \/ Restart

Spec == Init /\ [][Next]_vars

PipelineNext ==
    \/ \E r \in EnhanceRequests : ServeEnhance(r)
    \/ \E outcome \in LookupOutcomes : GetIssue(outcome)
    \/ to_string
    \/ BuildPrompt
    \/ \E outcome \in GenerationOutcomes : CallModel(outcome)
    \/ Extract
    \/ ReturnResult
    \/ \E outcome \in UpdateOutcomes : UpdateIssue(outcome)
    \/ Finish

PipelineSpec == Init /\ [][PipelineNext]_vars

-----------------------------------------------------------------------------
(* _extract_description_from_output called on its own.                     *)

\* an upper-case line with a colon that is exactly HeaderMaxLen long
LineLongHeader ==
    <<"N", "O", "T", "E", ":", " ", "X", "X", "X", "X", "X", "X", "X", "X",
      "X", "X", "X", "X", "X", "X", "X", "X", "X", "X", "X", "X", "X", "X",
      "X", "X", "X", "X", "X", "X", "X", "X", "X", "X", "X", "X", "X", "X",
      "X", "X", "X", "X", "X", "X", "X", "X">>

\* a line with blanks around its text
LineIndented == <<" ", "F", "o", "o", " ">>

TextLines ==
    {Marker, LineMarkerText, LineFoo, LineBar, LineHeader, LineLongHeader,
     LineIndented}

\* longest text given to the extraction, in lines
MaxTextLines == 4

TextInputs == UNION {[1..n -> TextLines] : n \in 1..MaxTextLines}

TextInit ==
    /\ RegistryInit
    /\ credentials = TRUE
    /\ PipelineInit
    /\ \E lines \in TextInputs : llama_output = [set |-> TRUE, lines |-> lines]
    /\ extracted = Unset
    /\ PromptIdle
    /\ RaceIdle

\* a call of _extract_description_from_output(llama_output)
ExtractCall ==
    /\ llama_output.set
    /\ ~extracted.set
    /\ extracted' = [set |-> TRUE,
                     value |-> ExtractDescription(llama_output.lines)]
    /\ UNCHANGED <<regVars, credentials, pipeVars, llama_output,
                   snapshot, prompt, raceVars>>

TextNext == ExtractCall

TextSpec == TextInit /\ [][TextNext]_vars

-----------------------------------------------------------------------------
(* _build_prompt called on its own.  A field of issue['fields'] is absent, *)
(* null, a string, an object with or without 'name', or a list; the        *)
(* prompt is the sequence of its fixed pieces and rendered values.         *)

Absent == [kind |-> "absent"]

Null == [kind |-> "null"]

Str(v) == [kind |-> "str", value |-> v]

\* {} : an object without 'name'
EmptyObject == [kind |-> "object", named |-> FALSE]

Named(v) == [kind |-> "object", named |-> TRUE, name |-> v]

List(items) == [kind |-> "list", items |-> items]

\* longest labels / components list of a snapshot
MaxListLen == 2

LabelNames == {"ui", "api"}

ComponentNames == {"core"}

ListsOver(names) == UNION {[1..n -> names] : n \in 0..MaxListLen}

TextFieldValues(v) == {Absent, Null, Str(""), Str(v)}

ObjectFieldValues(v) == {Absent, Null, EmptyObject, Named(v)}

Snapshots ==
    [key : {"K-1"},
     summary : TextFieldValues("Fix login"),
     description : TextFieldValues("Login fails"),
     priority : ObjectFieldValues("High"),
     issuetype : ObjectFieldValues("Bug"),
     assignee : ObjectFieldValues("Ann"),
     status : {Absent, Named("Open")},
     labels : {Absent, Null} \cup {List(l) : l \in ListsOver(LabelNames)},
     components : {Absent, Null}
                  \cup {List(l) : l \in ListsOver(ComponentNames)}]

\* bool(value): None, '', {} and [] are false
Truthy(v) ==
    CASE v.kind \in {"absent", "null"} -> FALSE
      [] v.kind = "str" -> v.value # ""
      [] v.kind = "object" -> v.named
      [] v.kind = "list" -> v.items # <<>>

\* f"{fields.get(name, default)}": str() of the value, 'None' for null
GetOrDefault(v, default) ==
    CASE v.kind = "absent" -> default
      [] v.kind = "null" -> "None"
      [] OTHER -> v.value

\* fields.get(f, {}).get('name', default) if fields.get(f) else default
\* ('displayName' for the assignee)
NameOrDefault(v, default) == IF Truthy(v) THEN v.name ELSE default

\* ', '.join(items) if items else 'None', as pieces
RECURSIVE JoinComma(_)
JoinComma(items) ==
    IF Len(items) = 1 THEN <<items[1]>>
    ELSE <<items[1], ", ">> \o JoinComma(Tail(items))

ListOrNone(v) == IF Truthy(v) THEN JoinComma(v.items) ELSE <<"None">>

\* self.policy_rules and the closing TASK paragraph, each one piece
PolicyRules == "JIRA TICKET ENHANCEMENT POLICY"

TaskText == "TASK: ... ENHANCED DESCRIPTION: ... enhance this ticket now:"

\* _build_prompt
build_prompt(snap, custom_instructions) ==
    <<PolicyRules, "CURRENT TICKET:",
      "Key: ", snap.key,
      "Title: ", GetOrDefault(snap.summary, "No title"),
      "Description: ", GetOrDefault(snap.description, "No description"),
      "Priority: ", NameOrDefault(snap.priority, "Not set"),
      "Issue Type: ", NameOrDefault(snap.issuetype, "Not set"),
      "Assignee: ", NameOrDefault(snap.assignee, "Unassigned"),
      "Status: ", NameOrDefault(snap.status, "Unknown"),
      "Labels: ">> \o ListOrNone(snap.labels)
    \o <<"Components: ">> \o ListOrNone(snap.components)
    \o <<custom_instructions, TaskText>>

PromptInit ==
    /\ RegistryInit
    /\ credentials = TRUE
    /\ PipelineInit
    /\ ExtractionIdle
    /\ \E fields \in Snapshots : snapshot = [set |-> TRUE, issue |-> fields]
    /\ prompt = Unset
    /\ RaceIdle

\* a call of _build_prompt(issue, custom_instructions)
BuildPromptCall(custom_instructions) ==
    /\ snapshot.set
    /\ ~prompt.set
    /\ prompt' = [set |-> TRUE,
                  instructions |-> custom_instructions,
                  pieces |-> build_prompt(snapshot.issue, custom_instructions)]
    /\ UNCHANGED <<regVars, credentials, pipeVars, llama_output, extracted,
                   snapshot, raceVars>>

PromptNext ==
    \E custom_instructions \in InstructionArgs :
        BuildPromptCall(custom_instructions)

PromptSpec == PromptInit /\ [][PromptNext]_vars

-----------------------------------------------------------------------------
(* Two /installed calls served by two threads of the threaded server, with *)
(* no lock: one step per access to the shared dictionary or to the file.   *)
(* open(..., 'w') truncates when it opens; json.dump iterates the shared   *)
(* dictionary and fills the file object's buffer; leaving the with block   *)
(* writes the buffer at the start of the file, without truncating.         *)

Threads == {1, 2}

\* the two calls install distinct client keys
RaceBodies ==
    {b \in [Threads -> InstallBodies \ {Malformed}] :
        b[1].clientKey # b[2].clientKey}

\* a file that json.load rejects, of the given length
Garbled(size) == [state |-> "corrupt", data |-> EmptyDict, size |-> size]

\* Lengths in half-records: the text of n records is 2n long, and a dump
\* cut short by 'dictionary changed size during iteration' lacks its end.
TextSize(buf) ==
    IF buf.complete THEN 2 * Cardinality(DOMAIN buf.data)
    ELSE 2 * Cardinality(DOMAIN buf.data) - 1

FileSize(file) ==
    CASE file.state = "missing" -> 0
      [] file.state = "ok" -> 2 * Cardinality(DOMAIN file.data)
      [] file.state = "corrupt" -> file.size

\* the buffer written at offset 0 of the file as it is now: a text at
\* least as long as the file replaces it, a shorter one leaves the file's
\* tail behind it
Flush(file, buf) ==
    IF TextSize(buf) >= FileSize(file)
    THEN IF buf.complete THEN FileWith(buf.data) ELSE Garbled(TextSize(buf))
    ELSE Garbled(FileSize(file))

RaceInit ==
    /\ RegistryInit
    /\ credentials = TRUE
    /\ PipelineInit
    /\ ExtractionIdle
    /\ PromptIdle
    /\ tpc = [t \in Threads |-> "start"]
    /\ tbody \in RaceBodies
    /\ tbuf = [t \in Threads |-> Unset]
    /\ tresp = [t \in Threads |-> Unset]

\* self.installed_tenants[client_key] = {...}
RaceUpdate(t) ==
    /\ tpc[t] = "start"
    /\ installed_tenants' =
          Put(installed_tenants, tbody[t].clientKey,
              [shared_secret |-> tbody[t].sharedSecret,
               base_url |-> tbody[t].baseUrl])
    /\ live' = live \cup {tbody[t].clientKey}
    /\ tpc' = [tpc EXCEPT ![t] = "updated"]
    /\ UNCHANGED <<tenants_json, last, restarted, credentials, pipeVars,
                   pureVars, tbody, tbuf, tresp>>

\* save_tenants: open('tenants.json', 'w')
RaceOpen(t) ==
    /\ tpc[t] = "updated"
    /\ tenants_json' = Garbled(0)
    /\ tpc' = [tpc EXCEPT ![t] = "opened"]
    /\ UNCHANGED <<installed_tenants, last, live, restarted, credentials,
                   pipeVars, pureVars, tbody, tbuf, tresp>>

\* save_tenants: json.dump starts to iterate the dictionary
RaceDumpBegin(t) ==
    /\ tpc[t] = "opened"
    /\ tbuf' = [tbuf EXCEPT ![t] = [set |-> TRUE, complete |-> FALSE,
                                    data |-> installed_tenants]]
    /\ tpc' = [tpc EXCEPT ![t] = "dumping"]
    /\ UNCHANGED <<regVars, credentials, pipeVars, pureVars, tbody, tresp>>

\* save_tenants: json.dump ends, or raises RuntimeError because the
\* dictionary grew while it iterated
RaceDumpEnd(t) ==
    /\ tpc[t] = "dumping"
    /\ tbuf' = [tbuf EXCEPT
                  ![t].complete =
                      (DOMAIN installed_tenants = DOMAIN tbuf[t].data)]
    /\ tpc' = [tpc EXCEPT ![t] = "dumped"]
    /\ UNCHANGED <<regVars, credentials, pipeVars, pureVars, tbody, tresp>>

\* save_tenants: the with block closes the file; serve_installed answers
RaceClose_ReplacesFile(t) ==
    /\ tpc[t] = "dumped"
    /\ tenants_json' = IF tbuf[t].complete THEN FileWith(tbuf[t].data)
                       ELSE Garbled(TextSize(tbuf[t]))
    /\ tresp' = [tresp EXCEPT ![t] =
                   [set |-> TRUE,
                    resp |-> IF tbuf[t].complete THEN NoContent
                             ELSE Resp(400, "RuntimeError"),
                    order |-> Cardinality({u \in Threads : tpc[u] = "done"})
                              + 1]]
    /\ tpc' = [tpc EXCEPT ![t] = "done"]
    /\ UNCHANGED <<installed_tenants, last, live, restarted, credentials,
                   pipeVars, pureVars, tbody, tbuf>>

RaceClose(t) ==
    /\ tpc[t] = "dumped"
    /\ tenants_json' = Flush(tenants_json, tbuf[t])
    /\ tresp' = [tresp EXCEPT ![t] =
                   [set |-> TRUE,
                    resp |-> IF tbuf[t].complete THEN NoContent
                             ELSE Resp(400, "RuntimeError"),
                    order |-> Cardinality({u \in Threads : tpc[u] = "done"})
                              + 1]]
    /\ tpc' = [tpc EXCEPT ![t] = "done"]
    /\ UNCHANGED <<installed_tenants, last, live, restarted, credentials,
                   pipeVars, pureVars, tbody, tbuf>>

RaceNext ==
    \E t \in Threads :
        \/ RaceUpdate(t)
        \/ RaceOpen(t)
        \/ RaceDumpBegin(t)
        \/ RaceDumpEnd(t)
        \/ RaceClose(t)

RaceSpec == RaceInit /\ [][RaceNext]_vars

-----------------------------------------------------------------------------
(* Tenant registry and JWT gate: properties.                               *)

\* the token of the request just handled by the gate
GateToken == last.header.token

GateSawToken ==
    /\ last.op = "jwt"
    /\ last.header.prefix
    /\ ~GateToken.malformed

\* C1: within one process started on an empty registry, the registry holds
\* a record for c exactly when an install for c was received and no
\* uninstall for c was received after it; right after an uninstall for c
\* the registry is without c.
RegistryIffInstalledNotUninstalled ==
    /\ ~restarted => DOMAIN installed_tenants = live
    /\ (last.op = "uninstalled" /\ ~last.body.malformed)
          => last.body.clientKey \notin DOMAIN installed_tenants

\* an uninstall removed a record that an install of this process had put
InstallThenUninstallReached ==
    /\ ~restarted
    /\ last.op = "uninstalled"
    /\ last.removed
    /\ last.body.clientKey \notin DOMAIN installed_tenants

\* C2: after every completed install or uninstall the persisted mapping
\* equals the in-memory mapping, and a restart never brings back a tenant
\* that was uninstalled.
PersistedEqualsRegistry ==
    /\ (last.op \in {"installed", "uninstalled"} /\ last.resp.status = 204)
          => /\ tenants_json.state # "corrupt"
             /\ load_tenants(tenants_json) = installed_tenants
    /\ last.op = "restart" => DOMAIN installed_tenants \subseteq live

\* C3: a token whose claimed issuer has no record is rejected as
\* unknown-tenant with status 401 and the wrapped handler does not run,
\* whatever its signature, algorithm and expiry.
UnknownIssuerRejected ==
    (GateSawToken /\ GateToken.iss \notin DOMAIN installed_tenants)
      => /\ last.resp = Unauthorized("App not installed for this tenant")
         /\ ~last.ran

\* an expired token of a tenant that was installed and then uninstalled
\* (its record is still in tenants.json) was rejected as unknown-tenant
UninstalledIssuerRejectedReached ==
    /\ GateSawToken
    /\ GateToken.expired
    /\ GateToken.iss \notin DOMAIN installed_tenants
    /\ GateToken.iss \in DOMAIN tenants_json.data
    /\ last.resp = Unauthorized("App not installed for this tenant")

\* C4: the wrapped handler runs only for a token signed with the secret
\* currently stored for the token's claimed issuer; any other token gets 401.
OnlyStoredSecretValidates ==
    /\ (last.op = "jwt" /\ last.ran)
          => /\ GateSawToken
             /\ GateToken.iss \in DOMAIN installed_tenants
             /\ GateToken.key = installed_tenants[GateToken.iss].shared_secret
    /\ (last.op = "jwt" /\ ~last.ran) => last.resp.status = 401

\* a token claiming one tenant and signed with another tenant's (different)
\* secret was rejected
CrossTenantSecretRejectedReached ==
    /\ GateSawToken
    /\ GateToken.alg = "HS256"
    /\ ~GateToken.expired
    /\ GateToken.iss \in DOMAIN installed_tenants
    /\ GateToken.key # installed_tenants[GateToken.iss].shared_secret
    /\ \E other \in DOMAIN installed_tenants \ {GateToken.iss} :
          installed_tenants[other].shared_secret = GateToken.key
    /\ ~last.ran
    /\ last.resp = Unauthorized("Invalid token")

\* C10: an install whose save fails answers with an error, and the record
\* of its body is in the registry; a later pass through the gate leaves the
\* registry as it is.
InstallRecordSurvivesSaveFailure ==
    /\ [](( /\ last.op = "installed"
            /\ ~last.body.malformed
            /\ last.io # "ok" )
          => /\ last.resp.status = 400
             /\ last.resp.error # ""
             /\ last.body.clientKey \in DOMAIN installed_tenants
             /\ installed_tenants[last.body.clientKey] =
                    [shared_secret |-> last.body.sharedSecret,
                     base_url |-> last.body.baseUrl])
    /\ [][last'.op = "jwt" => installed_tenants' = installed_tenants]_vars

\* an install replaced a record, its save failed, and the new secret is the
\* one in the registry while tenants.json still has the old one
UnsavedReinstallReached ==
    /\ last.op = "installed"
    /\ ~last.body.malformed
    /\ last.io = "open_failed"
    /\ tenants_json.state = "ok"
    /\ last.body.clientKey \in DOMAIN tenants_json.data
    /\ tenants_json.data[last.body.clientKey].shared_secret
          # last.body.sharedSecret
    /\ installed_tenants[last.body.clientKey].shared_secret
          = last.body.sharedSecret

-----------------------------------------------------------------------------
(* Enhancement pipeline: properties.                                       *)

\* C5: enhance_issue_description never raises to its caller, and every
\* failed step of it ends in a returned result with success false and the
\* failure in its error field.
PreviewNeverRaises ==
    /\ eid # "raised"
    /\ (eid = "returned" /\ failed \in {"lookup", "prompt", "generation",
                                         "parse"})
          => /\ ~enh.success
             /\ enh.error # ""

\* C6: when the generation step of an apply request fails, the request
\* ends with success false and the error of that step, no description
\* update is issued and the ticket keeps its description.
ApplyStopsOnGenerationFailure ==
    (req # Unset /\ req.action = "apply"
       /\ failed \in {"generation", "parse"})
      => /\ updates = 0
         /\ ticket = ticket0
         /\ pc \in {"returned", "done", "idle"}
         /\ pc \in {"done", "idle"}
               => /\ resp.status = 200
                  /\ resp.body.success = FALSE
                  /\ resp.body.message = "Enhancement failed"
                  /\ resp.body.error = enh.error
                  /\ failed = "generation" => enh.error = model_out.raised

\* an apply request was answered after the generation endpoint returned a
\* non-success status
ApplyAfterHttpErrorReached ==
    /\ pc = "done"
    /\ req.action = "apply"
    /\ gens = 1
    /\ model_out.raised = "http_error"
    /\ resp.body.success = FALSE

\* C7: a preview request issues no description update and leaves the
\* ticket's description as it was, whatever the generation outcome; while
\* enhance_issue_description runs nothing is written either.
PreviewNeverWrites ==
    /\ []((req # Unset /\ req.action = "preview")
            => (updates = 0 /\ ticket = ticket0))
    /\ [][eid = "running" => (ticket' = ticket /\ updates' = updates)]_vars

\* a preview was answered with a non-empty enhanced description that
\* differs from the ticket's description
PreviewWithDescriptionReached ==
    /\ pc = "done"
    /\ req.action = "preview"
    /\ resp.status = 200
    /\ resp.body.success
    /\ resp.body.enhanced_description # <<>>
    /\ resp.body.enhanced_description # ticket

\* C8: a request without issueKey, or with an empty one, is answered 400
\* 'Issue key required' and contacts neither the tracker nor the
\* generation endpoint, for every action and instructions.
MissingIssueKeyRejected ==
    (req # Unset /\ req.issueKey \in {NoArg, ""})
      => /\ pc \in {"done", "idle"}
         /\ resp = Json(400, Failure("Issue key required"))
         /\ reads = 0
         /\ gens = 0
         /\ updates = 0
         /\ ticket = ticket0

\* an apply request with an empty issueKey was answered in a process whose
\* tracker credentials are configured
EmptyIssueKeyApplyReached ==
    /\ pc = "done"
    /\ credentials
    /\ req.issueKey = ""
    /\ req.action = "apply"
    /\ req.instructions # ""
    /\ resp.status = 400

\* C9: a request with an issueKey and an action other than preview or
\* apply is answered with a client error (400) in every configuration of
\* the process, and the pipeline is not run.
InvalidActionIsClientError ==
    (req # Unset /\ req.issueKey \notin {NoArg, ""}
       /\ req.action \notin {"preview", "apply"})
      => /\ resp.status = 400
         /\ reads = 0
         /\ gens = 0
         /\ updates = 0

\* C11: one request calls the generation endpoint at most once and the
\* tracker's description update at most once; a failed generation call or a
\* failed update is reported in the response with no second call.
NoRetries ==
    /\ gens <= 1
    /\ updates <= 1
    /\ (pc \in {"done", "idle"} /\ failed = "generation")
          => /\ gens = 1
             /\ updates = 0
             /\ resp.body.success = FALSE
             /\ resp.body.error = model_out.raised
    /\ (pc \in {"done", "idle"} /\ failed = "update")
          => /\ gens = 1
             /\ updates = 1
             /\ resp.body.success = FALSE
             /\ resp.body.message = "Failed to update"

\* an apply request was answered after its one update call failed
FailedUpdateReportedReached ==
    /\ pc = "done"
    /\ req.action = "apply"
    /\ failed = "update"
    /\ gens = 1
    /\ updates = 1
    /\ ticket = ticket0

-----------------------------------------------------------------------------
(* Extraction: properties.                                                 *)

\* 'ENHANCED DESCRIPTION:' in line.upper()
HasMarker(line) == Contains(Upper(line), Marker)

\* index of the first line with the marker
FirstMarker(lines) ==
    CHOOSE i \in 1..Len(lines) :
        HasMarker(lines[i]) /\ \A j \in 1..(i - 1) : ~HasMarker(lines[j])

\* C12: a text without a marker line extracts to the empty string; with a
\* marker line, the lines before the first one contribute nothing: the
\* result is that of the text starting at the first marker line.
NothingBeforeMarker ==
    extracted.set =>
      LET lines == llama_output.lines IN
      IF \A i \in 1..Len(lines) : ~HasMarker(lines[i])
      THEN extracted.value = <<>>
      ELSE extracted.value =
             ExtractDescription(SubSeq(lines, FirstMarker(lines), Len(lines)))

\* a text with 'Foo' before its first marker line was extracted to a
\* non-empty description
TextBeforeMarkerDroppedReached ==
    /\ extracted.set
    /\ Len(llama_output.lines) >= 3
    /\ llama_output.lines[1] = LineFoo
    /\ llama_output.lines[2] = Marker
    /\ llama_output.lines[3] = LineBar
    /\ extracted.value = LineBar

\* the lines after index m that look like a section header
HeadersAfter(lines, m) ==
    {i \in (m + 1)..Len(lines) : IsSectionHeader(lines[i])}

\* the first of them
FirstHeaderAfter(lines, m) ==
    CHOOSE i \in HeadersAfter(lines, m) :
        \A j \in HeadersAfter(lines, m) : i <= j

\* what the marker line itself contributes: its trimmed text after the
\* first colon, if any
MarkerLineText(line) ==
    IF Strip(AfterFirstColon(line)) # <<>>
    THEN <<Strip(AfterFirstColon(line))>>
    ELSE <<>>

\* C13: after the first marker line, the first line that is entirely
\* upper-case, has a colon and is shorter than 50 characters when trimmed
\* ends the scan: the result is the marker line's trailing text and the
\* lines between the two, verbatim and in order, joined and trimmed.
StopsAtFirstHeader ==
    (/\ extracted.set
     /\ \E i \in 1..Len(llama_output.lines) : HasMarker(llama_output.lines[i])
     /\ HeadersAfter(llama_output.lines,
                     FirstMarker(llama_output.lines)) # {})
      => LET lines == llama_output.lines
             m == FirstMarker(lines)
             t == FirstHeaderAfter(lines, m)
         IN  extracted.value =
               Strip(Join(MarkerLineText(lines[m])
                          \o SubSeq(lines, m + 1, t - 1)))

\* the marker lines after the first one that look like a section header
LaterMarkerHeaders(lines) ==
    {i \in HeadersAfter(lines, FirstMarker(lines)) : HasMarker(lines[i])}

\* C15: only the first marker line is the header; a later line with the
\* marker that is upper-case, has a colon and is shorter than 50 characters
\* ends the scan, so the result is that of the text cut before that line.
LaterMarkerLineEndsScan ==
    (/\ extracted.set
     /\ \E i \in 1..Len(llama_output.lines) : HasMarker(llama_output.lines[i]))
      => \A t \in LaterMarkerHeaders(llama_output.lines) :
            extracted.value =
              ExtractDescription(SubSeq(llama_output.lines, 1, t - 1))

-----------------------------------------------------------------------------
(* Prompt: properties.                                                     *)

\* how many pieces of the prompt are exactly this text
Occurrences(pieces, v) == Cardinality({i \in 1..Len(pieces) : pieces[i] = v})

IndexOf(pieces, v) == CHOOSE i \in 1..Len(pieces) : pieces[i] = v

\* the piece rendered after a label
ValueAfter(pieces, label) == pieces[IndexOf(pieces, label) + 1]

\* the pieces rendered between two labels / fixed pieces
PiecesBetween(pieces, from, to) ==
    SubSeq(pieces, IndexOf(pieces, from) + 1, IndexOf(pieces, to) - 1)

\* a populated field: a non-empty string, an object with a name, a
\* non-empty list
Populated(v) == Truthy(v)

\* C14: the prompt has the ticket key and the title once each, every
\* populated field renders its value, and every field that is absent, null
\* or empty renders its placeholder.
PromptRendersFields ==
    prompt.set =>
      LET f == snapshot.issue
          p == prompt.pieces
          title == IF Populated(f.summary) THEN f.summary.value
                   ELSE "No title"
      IN  /\ Occurrences(p, f.key) = 1
          /\ ValueAfter(p, "Key: ") = f.key
          /\ Occurrences(p, title) = 1
          /\ ValueAfter(p, "Title: ") = title
          /\ ValueAfter(p, "Description: ") =
                IF Populated(f.description) THEN f.description.value
                ELSE "No description"
          /\ ValueAfter(p, "Priority: ") =
                IF Populated(f.priority) THEN f.priority.name ELSE "Not set"
          /\ ValueAfter(p, "Issue Type: ") =
                IF Populated(f.issuetype) THEN f.issuetype.name ELSE "Not set"
          /\ ValueAfter(p, "Assignee: ") =
                IF Populated(f.assignee) THEN f.assignee.name
                ELSE "Unassigned"
          /\ PiecesBetween(p, "Labels: ", "Components: ") =
                IF Populated(f.labels) THEN JoinComma(f.labels.items)
                ELSE <<"None">>
          /\ SubSeq(p, IndexOf(p, "Components: ") + 1, Len(p) - 2) =
                IF Populated(f.components) THEN JoinComma(f.components.items)
                ELSE <<"None">>

-----------------------------------------------------------------------------
(* Concurrent installs: properties.                                        *)

BothInstalled ==
    /\ \A t \in Threads : tpc[t] = "done" /\ tresp[t].resp = NoContent
    /\ \A t \in Threads : tbody[t].clientKey \in DOMAIN installed_tenants

\* the call whose buffer lacks the other call's record wrote last
StaleWriterLast(t) ==
    /\ BothInstalled
    /\ tresp[t].order = Cardinality(Threads)
    /\ \E u \in Threads : tbody[u].clientKey \notin DOMAIN tbuf[t].data

-----------------------------------------------------------------------------
(* /enhance, apply after a successful generation: properties.              *)

\* an apply request whose generation step succeeded has been answered
ApplyGenerated ==
    /\ pc \in {"done", "idle"}
    /\ req # Unset
    /\ req.action = "apply"
    /\ eid = "returned"
    /\ enh.success

\* C17: an apply request whose generation step succeeded issues exactly one
\* description update, with the description extracted from that call's
\* response (the empty string when the response has no marker line or no
\* 'response' field), and answers with that update's success flag.
ApplyWritesExtracted ==
    ApplyGenerated =>
      /\ gens = 1
      /\ updates = 1
      /\ update_arg = [set |-> TRUE,
                       value |-> ExtractDescription(model_out.lines)]
      /\ (\A i \in 1..Len(model_out.lines) : ~HasMarker(model_out.lines[i]))
            => update_arg.value = <<>>
      /\ resp.status = 200
      /\ resp.body.success = (failed # "update")
      /\ ticket = IF resp.body.success THEN update_arg.value ELSE ticket0

\* an apply request whose generation response had text but no marker line
\* replaced a non-empty description by the empty string and reported
\* success
ApplyBlankedDescriptionReached ==
    /\ ApplyGenerated
    /\ model_out.lines = <<LineFoo>>
    /\ ticket0 = OriginalDescription
    /\ update_arg = [set |-> TRUE, value |-> <<>>]
    /\ ticket = <<>>
    /\ resp.body.success

====
